---- MODULE Spec2Model ----
(***************************************************************************)
(* Model of crypto_analysis_app/app.py: the indicator computation          *)
(* (calculate_indicators), the trend classifier (analyze_trend), the       *)
(* sentiment classifier (get_market_sentiment), the tweet truncation       *)
(* (generate_tweet) and the top-level script that drives them.             *)
(*                                                                         *)
(* Floating-point values are modelled as fixed-point numbers in units of   *)
(* a hundredth.  Prices delivered by the exchange are whole                *)
(* units, so the 20-sample mean, its first difference and the 5-sample     *)
(* mean of the differences are exact in that unit; the standard deviation  *)
(* is the square root rounded down to a hundredth.  A missing value (NaN)  *)
(* is the record NaN.                                                      *)
(***************************************************************************)
EXTENDS Integers, Sequences, FiniteSets, TLC

VARIABLES
    pc,            \* position of the script / of the function under analysis
    symbol,        \* st.text_input value
    heap,          \* DataFrame objects by identity: object id -> column map
    df_5m,         \* the script's name df_5m: a reference into heap, or Unbound
    trend_data,    \* the script's name trend_data
    ticker_resp,   \* the /ticker/24hr response consumed by get_market_sentiment
    sentiment,     \* the script's name sentiment
    trading_plan,  \* the script's name trading_plan
    style,         \* st.selectbox value
    llm_resp,      \* the chat completion consumed by generate_tweet
    tweet,         \* the script's name tweet
    ai_analysis,   \* the script's name ai_analysis
    fetched,       \* intervals for which get_klines_data was called
    shown          \* what the page displays, in order

vars == <<pc, symbol, heap, df_5m, trend_data, ticker_resp, sentiment,
          trading_plan, style, llm_resp, tweet, ai_analysis, fetched, shown>>

----------------------------------------------------------------------------
(* Bounds of the model *)

\* longest candle series the exchange returns in the model
MaxLen == 26
\* most ticker records in a /ticker/24hr response
MaxTickers == 5

----------------------------------------------------------------------------
(* Program constants *)

\* rolling(window=20)
WINDOW == 20
\* rolling(window=5) of the MA20 difference
TREND_WINDOW == 5
\* boll_mid +/- 2 * boll_std
BOLL_K == 2
\* len(tweet) > 280
TWEET_LIMIT == 280
\* tweet[:277]
TWEET_CUT == 277

TIMEFRAMES == {"5m", "15m", "1h", "4h", "1d"}

----------------------------------------------------------------------------
(* Python names and values *)

Unbound == [bound |-> FALSE, val |-> 0]

Bound(v) == [bound |-> TRUE, val |-> v]

\* float('nan')
NaN == [nan |-> TRUE, v |-> 0]

Num(x) == [nan |-> FALSE, v |-> x]

\* a > 0 on floats: False when a is NaN
GtZero(a) == (~a.nan) /\ a.v > 0

Add(a, b) == IF a.nan \/ b.nan THEN NaN ELSE Num(a.v + b.v)

Sub(a, b) == IF a.nan \/ b.nan THEN NaN ELSE Num(a.v - b.v)

Times(k, a) == IF a.nan THEN NaN ELSE Num(k * a.v)

RECURSIVE IsqrtIter(_, _, _)
IsqrtIter(x, lo, hi) ==
    IF lo >= hi THEN lo
    ELSE LET mid == (lo + hi + 1) \div 2
         IN  IF mid * mid <= x THEN IsqrtIter(x, mid, hi)
             ELSE IsqrtIter(x, lo, mid - 1)

\* square root, rounded down to the fixed-point unit
Isqrt(x) == IsqrtIter(x, 0, IF x < 46340 THEN x ELSE 46340)

RECURSIVE SumNums(_, _, _)
SumNums(col, lo, hi) ==
    IF lo > hi THEN 0 ELSE col[lo].v + SumNums(col, lo + 1, hi)

RECURSIVE SumSqDev(_, _, _, _)
SumSqDev(col, lo, hi, mean) ==
    IF lo > hi THEN 0
    ELSE (col[lo].v - mean) * (col[lo].v - mean) + SumSqDev(col, lo + 1, hi, mean)

\* a full window of w observations, none missing, ends at position i
WindowFull(col, i, w) ==
    /\ i >= w
    /\ \A j \in (i - w + 1)..i : ~col[j].nan

----------------------------------------------------------------------------
(* pandas Series operations used by calculate_indicators *)

\* Series.rolling(window=w).mean()
RollingMean(col, w) ==
    [i \in 1..Len(col) |->
        IF WindowFull(col, i, w)
        THEN Num(SumNums(col, i - w + 1, i) \div w)
        ELSE NaN]

\* Series.rolling(window=w).std(): sample standard deviation (ddof = 1)
RollingStd(col, w) ==
    [i \in 1..Len(col) |->
        IF WindowFull(col, i, w)
        THEN LET mean == SumNums(col, i - w + 1, i) \div w
             IN  Num(Isqrt(SumSqDev(col, i - w + 1, i, mean) \div (w - 1)))
        ELSE NaN]

DiffReversed(col) ==
    [i \in 1..Len(col) |-> IF i = 1 THEN NaN ELSE Sub(col[i - 1], col[i])]

\* Series.diff()
Diff(col) ==
    [i \in 1..Len(col) |-> IF i = 1 THEN NaN ELSE Sub(col[i], col[i - 1])]

\* df[a] + k * df[b], element by element
ColPlus(a, k, b) == [i \in 1..Len(a) |-> Add(a[i], Times(k, b[i]))]

\* df[a] - k * df[b], element by element
ColMinus(a, k, b) == [i \in 1..Len(a) |-> Sub(a[i], Times(k, b[i]))]

INDICATOR_COLUMNS ==
    {"ma20", "boll_mid", "boll_std", "boll_up", "boll_down", "ma20_trend"}

OHLCV_COLUMNS == {"open", "high", "low", "close", "volume"}

TrendNoDiff(ma20) == RollingMean(ma20, TREND_WINDOW)

\* df['ma20'].diff().rolling(window=5).mean()
Ma20Trend(ma20) == RollingMean(Diff(ma20), TREND_WINDOW)

\* the column map of df after the assignments of calculate_indicators
WithIndicators(d) ==
    LET ma20      == RollingMean(d["close"], WINDOW)
        boll_mid  == RollingMean(d["close"], WINDOW)
        boll_std  == RollingStd(d["close"], WINDOW)
        boll_up   == ColPlus(boll_mid, BOLL_K, boll_std)
        boll_down == ColMinus(boll_mid, BOLL_K, boll_std)
        trend     == Ma20Trend(ma20)
    IN  [c \in (DOMAIN d) \cup INDICATOR_COLUMNS |->
            CASE c = "ma20"       -> ma20
              [] c = "boll_mid"   -> boll_mid
              [] c = "boll_std"   -> boll_std
              [] c = "boll_up"    -> boll_up
              [] c = "boll_down"  -> boll_down
              [] c = "ma20_trend" -> trend
              [] OTHER            -> d[c]]

calculate_indicators_overwriting_close(h, ref) ==
    [heap |-> [h EXCEPT ![ref] =
                  [WithIndicators(h[ref]) EXCEPT
                      !["close"] = RollingMean(h[ref]["close"], WINDOW)]],
     ret |-> ref]

\* calculate_indicators(df): assigns the new columns on the object passed in
\* and returns that same object
calculate_indicators(h, ref) ==
    [heap |-> [h EXCEPT ![ref] = WithIndicators(h[ref])], ret |-> ref]

----------------------------------------------------------------------------
(* analyze_trend *)

Last(col) == col[Len(col)]

TrendLabelNonNegative(slope) ==
    IF (~slope.nan) /\ slope.v >= 0 THEN "rising" ELSE "falling"

\* "rising" if df['ma20_trend'].iloc[-1] > 0 else "falling"
TrendLabel(slope) == IF GtZero(slope) THEN "rising" ELSE "falling"

\* analyze_trend(df); .iloc[-1] of an empty column raises IndexError
analyze_trend(d) ==
    IF Len(d["close"]) = 0
    THEN [raised |-> "IndexError"]
    ELSE [raised |-> "none",
          value  |-> [current_price |-> Last(d["close"]),
                      ma20_trend    |-> TrendLabel(Last(d["ma20_trend"])),
                      support_resistance |->
                          [strong_resistance |-> Last(d["boll_up"]),
                           middle_line       |-> Last(d["boll_mid"]),
                           strong_support    |-> Last(d["boll_down"])]]]

----------------------------------------------------------------------------
(* get_klines_data: the exchange's candles, as a DataFrame *)

\* price level the modelled candle series start from
BasePrice == 60

StepSet == {-1, 0, 1, 2}

KinkSet == {10, 22}

ZigSet == {0, 1}

Min(a, b) == IF a < b THEN a ELSE b

Max(a, b) == IF a > b THEN a ELSE b

\* close of candle i: a slope of `up` per candle for the first `kink` candles,
\* `after` per candle from then on, plus `zig` on every second candle
ClosePrice(i, up, after, kink, zig) ==
    BasePrice + up * Min(i - 1, kink) + after * Max(i - 1 - kink, 0)
              + zig * ((i - 1) % 2)

\* the rows of a /klines response: n candles, oldest first
KlineRows(n, up, after, kink, zig) ==
    [i \in 1..n |->
        LET c == ClosePrice(i, up, after, kink, zig)
            o == IF i = 1 THEN c ELSE ClosePrice(i - 1, up, after, kink, zig)
        IN  [open |-> o, high |-> Max(o, c), low |-> Min(o, c),
             close |-> c, volume |-> 1]]

KlineResponses ==
    { KlineRows(n, up, after, kink, zig) :
        n \in 0..MaxLen, up \in StepSet, after \in StepSet,
        kink \in KinkSet, zig \in ZigSet }

\* df[col].astype(float): a whole price as a number of hundredths
ToFloat(p) == Num(p * 100)

\* the DataFrame get_klines_data builds from the rows of a response
DataFrameOf(rows) ==
    [c \in OHLCV_COLUMNS |-> [i \in 1..Len(rows) |-> ToFloat(rows[i][c])]]

----------------------------------------------------------------------------
(* Specification of the indicator pipeline on one fetched series:           *)
(* df = get_klines_data(...); df = calculate_indicators(df);                *)
(* trend_data = analyze_trend(df)                                           *)

InitIndicators ==
    /\ pc = "calc"
    /\ symbol = "BTC"
    /\ \E rows \in KlineResponses : heap = <<DataFrameOf(rows)>>
    /\ df_5m = Bound(1)
    /\ trend_data = Unbound
    /\ ticker_resp = <<>>
    /\ sentiment = Unbound
    /\ trading_plan = Unbound
    /\ style = Unbound
    /\ llm_resp = <<>>
    /\ tweet = Unbound
    /\ ai_analysis = Unbound
    /\ fetched = {"5m"}
    /\ shown = <<>>

IndCalculate ==
    /\ pc = "calc"
    /\ LET r == calculate_indicators(heap, df_5m.val)
       IN  /\ heap' = r.heap
           /\ df_5m' = Bound(r.ret)
    /\ pc' = "analyze"
    /\ UNCHANGED <<symbol, trend_data, ticker_resp, sentiment, trading_plan,
                   style, llm_resp, tweet, ai_analysis, fetched, shown>>

IndAnalyze ==
    /\ pc = "analyze"
    /\ LET r == analyze_trend(heap[df_5m.val])
       IN  IF r.raised = "none"
           THEN trend_data' = Bound(r.value) /\ pc' = "analyzed"
           ELSE trend_data' = trend_data /\ pc' = r.raised
    /\ UNCHANGED <<symbol, heap, df_5m, ticker_resp, sentiment, trading_plan,
                   style, llm_resp, tweet, ai_analysis, fetched, shown>>

NextIndicators == IndCalculate \/ IndAnalyze

SpecIndicators == InitIndicators /\ [][NextIndicators]_vars

\* the DataFrame the script's df_5m refers to
TheFrame == heap[df_5m.val]

StrictlyIncreasing(col) ==
    \A i \in 1..(Len(col) - 1) : col[i].v < col[i + 1].v

----------------------------------------------------------------------------
(* get_market_sentiment *)

\* ticker symbols as base and quote asset; the third starts with USDT and
\* does not end with it
SYMBOL_BTCUSDT == <<"BTC", "USDT">>

SYMBOL_ETHBTC == <<"ETH", "BTC">>

SYMBOL_USDTTRY == <<"USDT", "TRY">>

\* the kinds of ticker record of the model; priceChangePercent in hundredths
TickerKinds ==
    << [symbol |-> SYMBOL_BTCUSDT, priceChangePercent |-> -150],
       [symbol |-> SYMBOL_BTCUSDT, priceChangePercent |-> 0],
       [symbol |-> SYMBOL_BTCUSDT, priceChangePercent |-> 230],
       [symbol |-> SYMBOL_ETHBTC,  priceChangePercent |-> -150],
       [symbol |-> SYMBOL_ETHBTC,  priceChangePercent |-> 230],
       [symbol |-> SYMBOL_USDTTRY, priceChangePercent |-> 0],
       [symbol |-> SYMBOL_USDTTRY, priceChangePercent |-> 230] >>

\* ticker lists of at most n records (the order of the records does not
\* matter to the code, so one order of each multiset is kept)
TickerLists(n) ==
    LET K == 1..Len(TickerKinds)
        idx == UNION { [1..m -> K] : m \in 0..n }
        sorted == { s \in idx : \A i \in 1..(Len(s) - 1) : s[i] <= s[i + 1] }
    IN  { [i \in 1..Len(s) |-> TickerKinds[s[i]]] : s \in sorted }

\* requests.get(...) raised, or response.json()
TickerResponses(n) ==
    {[ok |-> FALSE, data |-> <<>>]} \cup
    { [ok |-> TRUE, data |-> d] : d \in TickerLists(n) }

\* item['symbol'].endswith('USDT')
EndsWithUSDT(t) == t.symbol[Len(t.symbol)] = "USDT"

\* float(item['priceChangePercent']) > 0
IsUp(t) == GtZero(Num(t.priceChangePercent))

SentimentLabelExclusive(num, den) ==
    IF num > 80 * den THEN "extremely_bullish"
    ELSE IF num > 60 * den THEN "bullish"
    ELSE IF num > 40 * den THEN "neutral"
    ELSE IF num > 20 * den THEN "bearish"
    ELSE "extremely_bearish"

\* the if / elif chain on up_percentage = num / den
SentimentLabel(num, den) ==
    IF num >= 80 * den THEN "extremely_bullish"
    ELSE IF num >= 60 * den THEN "bullish"
    ELSE IF num >= 40 * den THEN "neutral"
    ELSE IF num >= 20 * den THEN "bearish"
    ELSE "extremely_bearish"

\* f"{up_percentage:.2f}": num / den rounded to hundredths
Round2(num, den) == (2 * num * 100 + den) \div (2 * den)

get_market_sentiment_unchecked(resp) ==
    IF ~resp.ok THEN [kind |-> "error"]
    ELSE
        LET usdt_pairs  == SelectSeq(resp.data, EndsWithUSDT)
            total_pairs == Len(usdt_pairs)
            up_pairs    == SelectSeq(usdt_pairs, IsUp)
        IN  IF total_pairs = 0 THEN [kind |-> "error"]
            ELSE [kind  |-> "sentiment",
                  label |-> SentimentLabel(Len(up_pairs) * 100, total_pairs),
                  up_percentage |-> Round2(Len(up_pairs) * 100, total_pairs)]

\* get_market_sentiment(): the returned text, by kind: the sentiment line,
\* the no-USDT-data message, or the message of a caught exception
get_market_sentiment(resp) ==
    IF ~resp.ok THEN [kind |-> "error"]
    ELSE
        LET usdt_pairs  == SelectSeq(resp.data, EndsWithUSDT)
            total_pairs == Len(usdt_pairs)
            up_pairs    == SelectSeq(usdt_pairs, IsUp)
        IN  IF total_pairs = 0 THEN [kind |-> "NoData"]
            ELSE [kind  |-> "sentiment",
                  label |-> SentimentLabel(Len(up_pairs) * 100, total_pairs),
                  up_percentage |-> Round2(Len(up_pairs) * 100, total_pairs)]

----------------------------------------------------------------------------
(* Specification of get_market_sentiment on one ticker response *)

InitSentiment ==
    /\ pc = "sentiment"
    /\ symbol = "BTC"
    /\ heap = <<>>
    /\ df_5m = Unbound
    /\ trend_data = Unbound
    /\ ticker_resp \in TickerResponses(MaxTickers)
    /\ sentiment = Unbound
    /\ trading_plan = Unbound
    /\ style = Unbound
    /\ llm_resp = <<>>
    /\ tweet = Unbound
    /\ ai_analysis = Unbound
    /\ fetched = {}
    /\ shown = <<>>

SentimentCall ==
    /\ pc = "sentiment"
    /\ sentiment' = Bound(get_market_sentiment(ticker_resp))
    /\ pc' = "sentiment_done"
    /\ UNCHANGED <<symbol, heap, df_5m, trend_data, ticker_resp, trading_plan,
                   style, llm_resp, tweet, ai_analysis, fetched, shown>>

NextSentiment == SentimentCall

SpecSentiment == InitSentiment /\ [][NextSentiment]_vars

----------------------------------------------------------------------------
(* generate_tweet *)

WHITESPACE == {" ", "\n", "\t"}

RECURSIVE StripLeft(_)
StripLeft(t) ==
    IF t # <<>> /\ Head(t) \in WHITESPACE THEN StripLeft(Tail(t)) ELSE t

RECURSIVE StripRight(_)
StripRight(t) ==
    IF t # <<>> /\ t[Len(t)] \in WHITESPACE
    THEN StripRight(SubSeq(t, 1, Len(t) - 1))
    ELSE t

\* str.strip()
Strip(t) == StripRight(StripLeft(t))

ELLIPSIS == <<".", ".", ".">>

TruncateAtLimit(t) ==
    IF Len(t) > TWEET_LIMIT THEN SubSeq(t, 1, TWEET_LIMIT) \o ELLIPSIS ELSE t

\* if len(tweet) > 280: tweet = tweet[:277] + "..."
Truncate(t) ==
    IF Len(t) > TWEET_LIMIT THEN SubSeq(t, 1, TWEET_CUT) \o ELLIPSIS ELSE t

\* generate_tweet(symbol, analysis_summary, style), given the completion the
\* language model returns for its prompt (or its failure)
generate_tweet(resp) ==
    IF ~resp.ok THEN [kind |-> "error", text |-> <<>>]
    ELSE [kind |-> "tweet", text |-> Truncate(Strip(resp.content))]

\* longest completion of the model, in characters
MaxTweetLen == 283

\* most whitespace characters before and after a completion's text
MaxPad == 2

BodyChar(i) ==
    IF i % 5 = 3 THEN " " ELSE IF i % 2 = 0 THEN "a" ELSE "b"

Completion(lead, n, trail) ==
    [i \in 1..lead |-> "\n"] \o [i \in 1..n |-> BodyChar(i)]
                             \o [i \in 1..trail |-> " "]

LlmResponses ==
    {[ok |-> FALSE, content |-> <<>>]} \cup
    { [ok |-> TRUE, content |-> Completion(lead, n, trail)] :
        lead \in 0..MaxPad, n \in 0..MaxTweetLen, trail \in 0..MaxPad }

----------------------------------------------------------------------------
(* Specification of generate_tweet on one completion *)

InitTweet ==
    /\ pc = "tweet"
    /\ symbol = "BTC"
    /\ heap = <<>>
    /\ df_5m = Unbound
    /\ trend_data = Unbound
    /\ ticker_resp = <<>>
    /\ sentiment = Unbound
    /\ trading_plan = Unbound
    /\ style = Unbound
    /\ llm_resp \in LlmResponses
    /\ tweet = Unbound
    /\ ai_analysis = Unbound
    /\ fetched = {}
    /\ shown = <<>>

TweetCall ==
    /\ pc = "tweet"
    /\ tweet' = Bound(generate_tweet(llm_resp))
    /\ pc' = "tweet_done"
    /\ UNCHANGED <<symbol, heap, df_5m, trend_data, ticker_resp, sentiment,
                   trading_plan, style, llm_resp, ai_analysis, fetched, shown>>

NextTweet == TweetCall

SpecTweet == InitTweet /\ [][NextTweet]_vars

----------------------------------------------------------------------------
(* The script: one run of app.py for one value of the text input *)

\* the value get_klines_data returns after a caught exception
None == 0

\* the trading pairs /exchangeInfo lists
ListedPairs == {SYMBOL_BTCUSDT, SYMBOL_ETHBTC}

ExchangeInfoResponses ==
    {[ok |-> FALSE, symbols |-> {}], [ok |-> TRUE, symbols |-> ListedPairs]}

\* check_symbol_exists(symbol): f"{symbol}USDT" in symbols, False after a
\* caught exception
check_symbol_exists(sym, resp) ==
    IF ~resp.ok THEN FALSE ELSE <<sym, "USDT">> \in resp.symbols

\* what the user may type; "" is an empty input box
SymbolInputs == {"", "BTC", "DOGE2"}

\* the /klines responses of a run of the script: the request fails, or
\* candles rising by one unit each
ScriptKlineResponses ==
    {[ok |-> FALSE, rows |-> <<>>]} \cup
    { [ok |-> TRUE, rows |-> KlineRows(n, 1, 1, 0, 0)] : n \in 0..MaxLen }

\* the completions of a run of the script
ScriptLlmResponses ==
    { [ok |-> FALSE, content |-> <<>>],
      [ok |-> TRUE, content |-> Completion(0, TWEET_LIMIT, 0)],
      [ok |-> TRUE, content |-> Completion(1, TWEET_LIMIT + 1, 1)] }

STYLES == {"girl", "trader", "analyst", "media"}

\* generate_trading_plan / get_ai_analysis: the completion, or the message
\* of the caught exception
LlmText(ok) == IF ok THEN [kind |-> "text"] ELSE [kind |-> "error"]

Init ==
    /\ pc = "input"
    /\ symbol \in SymbolInputs
    /\ heap = <<>>
    /\ df_5m = Unbound
    /\ trend_data = Unbound
    /\ ticker_resp = <<>>
    /\ sentiment = Unbound
    /\ trading_plan = Unbound
    /\ style = Unbound
    /\ llm_resp = <<>>
    /\ tweet = Unbound
    /\ ai_analysis = Unbound
    /\ fetched = {}
    /\ shown = <<>>

\* symbol = st.text_input(...); if symbol:
ScriptInput ==
    /\ pc = "input"
    /\ pc' = IF symbol = "" THEN "col2" ELSE "check"
    /\ UNCHANGED <<symbol, heap, df_5m, trend_data, ticker_resp, sentiment,
                   trading_plan, style, llm_resp, tweet, ai_analysis, fetched,
                   shown>>

\* if check_symbol_exists(symbol): ... else: st.error(...)
ScriptCheckSymbol ==
    /\ pc = "check"
    /\ \E resp \in ExchangeInfoResponses :
         LET caught == IF resp.ok THEN <<>> ELSE <<"error: symbol check">>
         IN  IF check_symbol_exists(symbol, resp)
             THEN /\ shown' = shown \o caught \o <<"analysing">>
                  /\ pc' = "klines"
             ELSE /\ shown' = shown \o caught \o <<"error: no such pair">>
                  /\ pc' = "col2"
    /\ UNCHANGED <<symbol, heap, df_5m, trend_data, ticker_resp, sentiment,
                   trading_plan, style, llm_resp, tweet, ai_analysis, fetched>>

\* df_5m = get_klines_data(symbol, TIMEFRAMES["5m"]["interval"])
\* if df_5m is not None:
ScriptGetKlines ==
    /\ pc = "klines"
    /\ fetched' = fetched \cup {"5m"}
    /\ \E resp \in ScriptKlineResponses :
         IF resp.ok
         THEN /\ heap' = Append(heap, DataFrameOf(resp.rows))
              /\ df_5m' = Bound(Len(heap) + 1)
              /\ shown' = shown
              /\ pc' = "calc"
         ELSE /\ heap' = heap
              /\ df_5m' = Bound(None)
              /\ shown' = Append(shown, "error: klines")
              /\ pc' = "col2"
    /\ UNCHANGED <<symbol, trend_data, ticker_resp, sentiment, trading_plan,
                   style, llm_resp, tweet, ai_analysis>>

\* df_5m = calculate_indicators(df_5m)
ScriptCalculate ==
    /\ pc = "calc"
    /\ LET r == calculate_indicators(heap, df_5m.val)
       IN  /\ heap' = r.heap
           /\ df_5m' = Bound(r.ret)
    /\ pc' = "analyze"
    /\ UNCHANGED <<symbol, trend_data, ticker_resp, sentiment, trading_plan,
                   style, llm_resp, tweet, ai_analysis, fetched, shown>>

\* trend_data = analyze_trend(df_5m); an exception it raises is not caught
ScriptAnalyze ==
    /\ pc = "analyze"
    /\ LET r == analyze_trend(heap[df_5m.val])
       IN  IF r.raised = "none"
           THEN trend_data' = Bound(r.value) /\ pc' = "sentiment"
           ELSE trend_data' = trend_data /\ pc' = r.raised
    /\ UNCHANGED <<symbol, heap, df_5m, ticker_resp, sentiment, trading_plan,
                   style, llm_resp, tweet, ai_analysis, fetched, shown>>

\* sentiment = get_market_sentiment()
ScriptSentiment ==
    /\ pc = "sentiment"
    /\ \E resp \in TickerResponses(1) :
         /\ ticker_resp' = resp
         /\ sentiment' = Bound(get_market_sentiment(resp))
    /\ pc' = "plan"
    /\ UNCHANGED <<symbol, heap, df_5m, trend_data, trading_plan, style,
                   llm_resp, tweet, ai_analysis, fetched, shown>>

\* trading_plan = generate_trading_plan(symbol)
ScriptTradingPlan ==
    /\ pc = "plan"
    /\ \E ok \in BOOLEAN : trading_plan' = Bound(LlmText(ok))
    /\ pc' = "tweet"
    /\ UNCHANGED <<symbol, heap, df_5m, trend_data, ticker_resp, sentiment,
                   style, llm_resp, tweet, ai_analysis, fetched, shown>>

\* style = st.selectbox(...); tweet = generate_tweet(symbol, summary, style)
ScriptTweet ==
    /\ pc = "tweet"
    /\ \E st \in STYLES : style' = Bound(st)
    /\ \E resp \in ScriptLlmResponses :
         /\ llm_resp' = resp
         /\ tweet' = Bound(generate_tweet(resp))
    /\ pc' = "ai"
    /\ UNCHANGED <<symbol, heap, df_5m, trend_data, ticker_resp, sentiment,
                   trading_plan, ai_analysis, fetched, shown>>

\* ai_analysis = get_ai_analysis(symbol, analysis_summary, trading_plan)
\* and the four display calls of the left column
ScriptReport ==
    /\ pc = "ai"
    /\ \E ok \in BOOLEAN : ai_analysis' = Bound(LlmText(ok))
    /\ shown' = shown \o <<"report", "tweet">>
    /\ pc' = "col2"
    /\ UNCHANGED <<symbol, heap, df_5m, trend_data, ticker_resp, sentiment,
                   trading_plan, style, llm_resp, tweet, fetched>>

\* with col2: st.write(sentiment); st.write(trading_plan); reading a name
\* that was never assigned raises NameError, which is not caught
ScriptRightColumn ==
    /\ pc = "col2"
    /\ IF sentiment.bound /\ trading_plan.bound
       THEN /\ shown' = shown \o <<"sentiment", "trading plan">>
            /\ pc' = "done"
       ELSE /\ shown' = shown
            /\ pc' = "NameError"
    /\ UNCHANGED <<symbol, heap, df_5m, trend_data, ticker_resp, sentiment,
                   trading_plan, style, llm_resp, tweet, ai_analysis, fetched>>

Next ==
    \/ ScriptInput
    \/ ScriptCheckSymbol
    \/ ScriptGetKlines
    \/ ScriptCalculate
    \/ ScriptAnalyze
    \/ ScriptSentiment
    \/ ScriptTradingPlan
    \/ ScriptTweet
    \/ ScriptReport
    \/ ScriptRightColumn

Spec == Init /\ [][Next]_vars

\* the run ended with an exception no handler caught
Crashed == pc \in {"NameError", "IndexError"}

----------------------------------------------------------------------------
(* Properties of the indicator pipeline (under SpecIndicators) *)

\* the latest row of the frame has every indicator defined
LatestRowDefined(d) ==
    \A c \in INDICATOR_COLUMNS : ~Last(d[c]).nan

\* C2: the trend classifier reports "rising" exactly when the latest
\* trend slope is strictly greater than 0 (0, a negative or a missing slope
\* is "falling"), and resistance / middle / support are the latest
\* boll_up / boll_mid / boll_down, the price the latest close.
C2_TrendFromLastRow ==
    pc = "analyzed" =>
        LET d == TheFrame
            n == Len(d["close"])
            t == trend_data.val
        IN  /\ t.ma20_trend \in {"rising", "falling"}
            /\ t.ma20_trend = "rising" <=>
                   ((~d["ma20_trend"][n].nan) /\ d["ma20_trend"][n].v > 0)
            /\ t.support_resistance.strong_resistance = d["boll_up"][n]
            /\ t.support_resistance.middle_line = d["boll_mid"][n]
            /\ t.support_resistance.strong_support = d["boll_down"][n]
            /\ t.current_price = d["close"][n]

\* C2 witness: a summary made from a latest slope of exactly 0, reported falling
C2_Witness ==
    /\ pc = "analyzed"
    /\ ~Last(TheFrame["ma20_trend"]).nan
    /\ Last(TheFrame["ma20_trend"]).v = 0
    /\ trend_data.val.ma20_trend = "falling"

\* C3 as amended: the moving average and the Bollinger fields are undefined at
\* exactly the first 19 positions and the trend slope at exactly the first
\* 24, so a series of at least 25 candles has a fully defined latest row
\* (and one of 24 candles does not).
C3_WarmUp24 ==
    pc \in {"analyze", "analyzed"} =>
        LET d == TheFrame
            n == Len(d["close"])
        IN  /\ \A c \in INDICATOR_COLUMNS : Len(d[c]) = n
            /\ \A i \in 1..n :
                 /\ \A c \in INDICATOR_COLUMNS \ {"ma20_trend"} :
                        d[c][i].nan <=> i <= 19
                 /\ d["ma20_trend"][i].nan <=> i <= 24
            /\ n >= 25 => LatestRowDefined(d)
            /\ n = 24 => d["ma20_trend"][n].nan

\* C3 witness: 25 candles, the slope missing at position 24 and defined at 25
C3_Witness ==
    /\ pc = "analyze"
    /\ Len(TheFrame["close"]) = 25
    /\ TheFrame["ma20_trend"][24].nan
    /\ LatestRowDefined(TheFrame)

\* C3 as stated: the trend slope is undefined at exactly the first 23
\* positions, so any series of at least 24 candles has a defined latest row.
C3_WarmUp23 ==
    pc \in {"analyze", "analyzed"} =>
        LET d == TheFrame
            n == Len(d["close"])
        IN  /\ \A i \in 1..n :
                 /\ \A c \in INDICATOR_COLUMNS \ {"ma20_trend"} :
                        d[c][i].nan <=> i <= 19
                 /\ d["ma20_trend"][i].nan <=> i <= 23
            /\ n >= 24 => LatestRowDefined(d)

\* C4: when the latest row's trend slope or a Bollinger field is undefined,
\* the trend classifier fails and returns no summary; a summary is only ever
\* returned from a fully defined latest row.
C4_NoSummaryFromUndefined ==
    pc = "analyzed" => LatestRowDefined(TheFrame)

\* C8: for strictly increasing closes with a defined latest slope, the slope
\* is > 0, the direction is rising and support < middle < resistance.
C8_IncreasingIsRising ==
    (/\ pc = "analyzed"
     /\ StrictlyIncreasing(TheFrame["close"])
     /\ ~Last(TheFrame["ma20_trend"]).nan)
    => LET t == trend_data.val
           sr == t.support_resistance
       IN  /\ Last(TheFrame["ma20_trend"]).v > 0
           /\ t.ma20_trend = "rising"
           /\ ~sr.strong_support.nan /\ ~sr.middle_line.nan
           /\ ~sr.strong_resistance.nan
           /\ sr.strong_support.v < sr.middle_line.v
           /\ sr.middle_line.v < sr.strong_resistance.v

\* C8 witness: a strictly increasing series with unequal steps, analysed
C8_Witness ==
    /\ pc = "analyzed"
    /\ StrictlyIncreasing(TheFrame["close"])
    /\ ~Last(TheFrame["ma20_trend"]).nan
    /\ LET c == TheFrame["close"]
       IN  c[2].v - c[1].v # c[3].v - c[2].v
    /\ trend_data.val.ma20_trend = "rising"

\* C9 as amended: calculate_indicators returns the object it was given with
\* the six indicator columns added to it in place; the fetched columns keep
\* their values, and a second call on that object changes nothing.
C9_InPlaceAndIdempotent ==
    [][(pc = "calc" /\ pc' = "analyze") =>
          LET ref == df_5m.val
          IN  /\ df_5m' = df_5m
              /\ DOMAIN heap' = DOMAIN heap
              /\ DOMAIN heap'[ref] = OHLCV_COLUMNS \cup INDICATOR_COLUMNS
              /\ \A c \in OHLCV_COLUMNS : heap'[ref][c] = heap[ref][c]
              /\ calculate_indicators(heap', ref).heap = heap']_vars

\* C9 witness: the caller's frame carries the indicator columns after the call
C9_Witness ==
    /\ pc = "analyze"
    /\ Len(TheFrame["close"]) >= 25
    /\ INDICATOR_COLUMNS \subseteq DOMAIN TheFrame
    /\ LatestRowDefined(TheFrame)

\* C9 as stated: the call leaves the series passed in unchanged (no column
\* is added to or altered in the caller's object).
C9_InputUnchanged ==
    [][(pc = "calc" /\ pc' = "analyze") =>
          heap'[df_5m.val] = heap[df_5m.val]]_vars

----------------------------------------------------------------------------
(* Properties of get_market_sentiment (under SpecSentiment) *)

\* number of records of the response quoted in USDT
UsdtCount ==
    Cardinality({ i \in 1..Len(ticker_resp.data) :
                    ticker_resp.data[i].symbol[2] = "USDT" })

\* number of those whose 24h change is above 0
AdvancingCount ==
    Cardinality({ i \in 1..Len(ticker_resp.data) :
                    /\ ticker_resp.data[i].symbol[2] = "USDT"
                    /\ ticker_resp.data[i].priceChangePercent > 0 })

\* C1: for a non-empty set of USDT tickers with `up` advancing out of
\* `total`, the label is chosen by the fraction up/total, high to low with
\* inclusive lower bounds 4/5, 3/5, 2/5, 1/5; a change of 0 is not advancing.
C1_SentimentBuckets ==
    (pc = "sentiment_done" /\ ticker_resp.ok /\ UsdtCount > 0) =>
        LET up == AdvancingCount
            total == UsdtCount
            r == sentiment.val
        IN  /\ r.kind = "sentiment"
            /\ r.label =
                 (CASE 5 * up >= 4 * total -> "extremely_bullish"
                    [] 5 * up < 4 * total /\ 5 * up >= 3 * total -> "bullish"
                    [] 5 * up < 3 * total /\ 5 * up >= 2 * total -> "neutral"
                    [] 5 * up < 2 * total /\ 5 * up >= total -> "bearish"
                    [] 5 * up < total -> "extremely_bearish")

\* C1 witness: exactly 4 of 5 USDT tickers advance, the fifth is unchanged
C1_Witness ==
    /\ pc = "sentiment_done"
    /\ ticker_resp.ok
    /\ UsdtCount = 5
    /\ AdvancingCount = 4
    /\ \E i \in 1..Len(ticker_resp.data) :
          /\ ticker_resp.data[i].symbol = SYMBOL_BTCUSDT
          /\ ticker_resp.data[i].priceChangePercent = 0
    /\ sentiment.val.kind = "sentiment"
    /\ sentiment.val.label = "extremely_bullish"

\* C5: a response with no USDT ticker yields the no-data outcome, which is
\* neither a sentiment label nor the caught-exception outcome, and the
\* no-data outcome is yielded in no other case.
C5_NoDataWhenEmpty ==
    pc = "sentiment_done" =>
        (sentiment.val = [kind |-> "NoData"]
            <=> (ticker_resp.ok /\ UsdtCount = 0))

\* C5 witness: tickers were returned, none quoted in USDT
C5_Witness ==
    /\ pc = "sentiment_done"
    /\ ticker_resp.ok
    /\ Len(ticker_resp.data) > 0
    /\ UsdtCount = 0
    /\ sentiment.val.kind = "NoData"

----------------------------------------------------------------------------
(* Properties of generate_tweet (under SpecTweet) *)

\* positions of the characters of c that are not whitespace
InkPositions(c) == { i \in 1..Len(c) : c[i] \notin WHITESPACE }

\* c from its first to its last character that is not whitespace
Stripped(c) ==
    IF InkPositions(c) = {} THEN <<>>
    ELSE LET lo == CHOOSE i \in InkPositions(c) :
                       \A j \in InkPositions(c) : i <= j
             hi == CHOOSE i \in InkPositions(c) :
                       \A j \in InkPositions(c) : j <= i
         IN  [k \in 1..(hi - lo + 1) |-> c[lo + k - 1]]

\* C10: when the completion succeeds the tweet has at most 280 characters:
\* a stripped completion of at most 280 characters is returned as it is, a
\* longer one as its first 277 characters followed by "...".
C10_TweetAtMost280 ==
    (pc = "tweet_done" /\ llm_resp.ok) =>
        LET t == tweet.val.text
            s == Stripped(llm_resp.content)
        IN  /\ tweet.val.kind = "tweet"
            /\ Len(t) <= 280
            /\ Len(s) <= 280 => t = s
            /\ Len(s) > 280 =>
                  /\ Len(t) = 280
                  /\ \A k \in 1..277 : t[k] = s[k]
                  /\ \A k \in 278..280 : t[k] = "."

\* C10 witness: a padded completion of more than 280 characters, cut to 280
C10_Witness ==
    /\ pc = "tweet_done"
    /\ llm_resp.ok
    /\ Len(llm_resp.content) > 282
    /\ Head(llm_resp.content) \in WHITESPACE
    /\ Len(tweet.val.text) = 280
    /\ tweet.val.text[280] = "."

----------------------------------------------------------------------------
(* Properties of the script (under Spec) *)

\* C6: whatever the input and the outcomes of the external calls, no run
\* ends with an uncaught error: every run gets through the right-hand column.
C6_NoUncaughtError == ~Crashed

\* C7: for an existing symbol the run has fetched and analysed every
\* timeframe of TIMEFRAMES by the time it completes.
C7_EveryTimeframe ==
    pc = "done" => fetched = TIMEFRAMES

====
